---- MODULE Spec2Model ----
(***************************************************************************)
(* A model of app.py, the Streamlit dashboard of the used-bike listings.   *)
(* Streamlit runs the whole script once per event (first page load, a      *)
(* widget change, a manual rerun).  One action of this model is one event  *)
(* followed by the complete script run it triggers.  The state that        *)
(* survives between runs is the st.cache_data entry of load_data, the      *)
(* widget values kept in st.session_state under the four keys, and the     *)
(* page the last run produced.  The CSV file is the environment.           *)
(***************************************************************************)
EXTENDS Integers, Sequences, FiniteSets

VARIABLES
    file,           \* cleaned_bike_data.csv on disk
    cache,          \* the st.cache_data entry of load_data()
    reads,          \* number of pd.read_csv calls made by the process
    session_state,  \* widget values under brand_filter .. price_filter
    status,         \* how the last script run ended
    df,             \* the table load_data() returned in the last run
    selected_brand,
    selected_type,
    year_range,
    price_range,
    year_bounds,    \* min/max the year slider was created with
    price_bounds,   \* min/max the price slider was created with
    filtered_df,    \* index labels of the rows kept by the mask, in order
    metrics,        \* the three st.metric values
    fig2,           \* the input handed to px.histogram for the year chart
    preview,        \* index labels of the rows of the preview table
    rendered        \* elements emitted by the last run

vars == <<file, cache, reads, session_state, status, df, selected_brand,
          selected_type, year_range, price_range, year_bounds, price_bounds,
          filtered_df, metrics, fig2, preview, rendered>>

---------------------------------------------------------------------------
(* Bounds of the model *)

\* longest table built from RowPool
MaxRows == 2
\* rows of BigTable beyond the preview cap
BigExtra == 2
\* read_csv calls after which no further failing rerun is explored
MaxReads == 2

---------------------------------------------------------------------------
(* Program constants *)

DefaultYearLow == 2010
DefaultPriceLow == 50000
DefaultPriceHigh == 2000000
PriceStep == 10000
YearNbins == 15
PreviewRows == 100

---------------------------------------------------------------------------
(* Data: what pd.read_csv yields *)

\* a missing numeric cell
NaN == -1
\* a missing string cell
NaS == "NaN"

Row(b, t, y, p) == [Brand |-> b, BikeType |-> t, Year |-> y, Price |-> p]

RowPool ==
    << Row("Honda",  "Scooter",   2012, 150000),
       Row("Yamaha", "Motorbike", 2018, 500000),
       Row("Honda",  "Scooter",   2009, 40000),
       Row(NaS,      NaS,         NaN,  2500000),
       Row("Yamaha", "Motorbike", 2018, NaN) >>

RECURSIVE SeqsUpTo(_, _)
SeqsUpTo(S, n) ==
    IF n = 0 THEN {<<>>}
    ELSE LET shorter == SeqsUpTo(S, n - 1)
         IN  shorter \cup {Append(s, x) : s \in shorter, x \in S}

SmallTables == SeqsUpTo({RowPool[i] : i \in 1..Len(RowPool)}, MaxRows)

\* more matching rows than the preview shows
BigTable == [i \in 1..(PreviewRows + BigExtra) |-> RowPool[((i - 1) % 2) + 1]]

Tables == SmallTables

CsvFile(rows) == [kind |-> "csv", rows |-> rows]
Absent == [kind |-> "absent", rows |-> <<>>]
Malformed == [kind |-> "malformed", rows |-> <<>>]

Files == {CsvFile(t) : t \in Tables} \cup {Absent, Malformed}

\* what the file may be replaced by while the process runs
Rewrites == {Absent, CsvFile(<<RowPool[2]>>)}

\* slider positions the user is taken to pick among
YearChoices == {2009, 2012, 2018}
PriceChoices == {40000, 150000, 2500000}

---------------------------------------------------------------------------
(* pandas and Python helpers, as app.py uses them *)

Min2(a, b) == IF a <= b THEN a ELSE b
Max2(a, b) == IF a >= b THEN a ELSE b

Column(table, col) == {table[i][col] : i \in 1..Len(table)}

\* Series.dropna().unique() of a string column
dropna_unique(table, col) == Column(table, col) \ {NaS}

\* position of a label in lexicographic order
Rank(s) ==
    CASE s = "Honda" -> 1
      [] s = "Motorbike" -> 2
      [] s = "Scooter" -> 3
      [] s = "Yamaha" -> 4
      [] OTHER -> 5

\* sorted(...) of a set of labels
RECURSIVE sorted(_)
sorted(S) ==
    IF S = {} THEN <<>>
    ELSE LET least == CHOOSE x \in S : \A y \in S : Rank(x) <= Rank(y)
         IN  <<least>> \o sorted(S \ {least})

\* Series.min() / Series.max(): missing cells are skipped, and the result is
\* NaN when nothing is left
series_min(table, col) ==
    LET vals == Column(table, col) \ {NaN}
    IN  IF vals = {} THEN NaN ELSE CHOOSE m \in vals : \A v \in vals : m <= v

series_max(table, col) ==
    LET vals == Column(table, col) \ {NaN}
    IN  IF vals = {} THEN NaN ELSE CHOOSE m \in vals : \A v \in vals : m >= v

\* int(x) raises ValueError on NaN
int_raises(x) == x = NaN

\* isin with an empty selection read as "everything"
isin_empty_is_all(x, values) == values = {} \/ x \in values

\* Series.isin(values)
isin(x, values) == x \in values

\* Series >= bound and Series <= bound: a comparison with NaN is False
ge(x, bound) == x # NaN /\ x >= bound

\* an upper end that is exclusive
le_exclusive(x, bound) == x # NaN /\ x < bound

le(x, bound) == x # NaN /\ x <= bound

\* the sum of a column over the rows labels[lo..hi], halving the range
RECURSIVE range_sum(_, _, _, _, _)
range_sum(table, labels, col, lo, hi) ==
    IF lo > hi THEN 0
    ELSE IF lo = hi THEN table[labels[lo]][col]
    ELSE LET mid == (lo + hi) \div 2
         IN  range_sum(table, labels, col, lo, mid)
             + range_sum(table, labels, col, mid + 1, hi)

\* Series.sum() of a column of the selected rows
series_sum(table, labels, col) == range_sum(table, labels, col, 1, Len(labels))

\* round num/den to the nearest integer, a tie going to the even one, as the
\* format specs ",.0f" and ".1f" do for a value that is exact in binary
RoundHalfEven(num, den) ==
    LET q == num \div den
        r == num % den
    IN  IF 2 * r < den THEN q
        ELSE IF 2 * r > den THEN q + 1
        ELSE IF q % 2 = 0 THEN q ELSE q + 1

\* f"{Series.mean():,.0f}" : "nan" for an empty selection
format_mean_0f(table, labels, col) ==
    IF Len(labels) = 0 THEN NaN
    ELSE RoundHalfEven(series_sum(table, labels, col), Len(labels))

\* f"{Series.mean():.1f}" in tenths: "nan" for an empty selection
format_mean_1f(table, labels, col) ==
    IF Len(labels) = 0 THEN NaN
    ELSE RoundHalfEven(10 * series_sum(table, labels, col), Len(labels))

\* the last n rows instead of the first
head_as_tail(labels, n) ==
    SubSeq(labels, Len(labels) - Min2(n, Len(labels)) + 1, Len(labels))

\* DataFrame.head(n)
head(labels, n) == SubSeq(labels, 1, Min2(n, Len(labels)))

---------------------------------------------------------------------------
(* Streamlit *)

NoCache == [hit |-> FALSE, value |-> <<>>]

Unset == [set |-> FALSE, val |-> {}]
Stored(v) == [set |-> TRUE, val |-> v]

NoRange == <<NaN, NaN>>
UnsetRange == [set |-> FALSE, val |-> NoRange]

NoSession ==
    [brand_filter |-> Unset, type_filter |-> Unset,
     year_filter |-> UnsetRange, price_filter |-> UnsetRange]

\* load_data without the cache decorator: every call reads the file
load_data_uncached(c, f) ==
    IF f.kind = "csv"
    THEN [raised |-> FALSE, value |-> f.rows,
          cache |-> [hit |-> TRUE, value |-> f.rows], read |-> 1]
    ELSE [raised |-> TRUE, value |-> <<>>, cache |-> c, read |-> 1]

\* load_data that tries the file a second time when the first read fails
load_data_retry(c, f) ==
    IF c.hit
    THEN [raised |-> FALSE, value |-> c.value, cache |-> c, read |-> 0]
    ELSE IF f.kind = "csv"
    THEN [raised |-> FALSE, value |-> f.rows,
          cache |-> [hit |-> TRUE, value |-> f.rows], read |-> 1]
    ELSE [raised |-> TRUE, value |-> <<>>, cache |-> c, read |-> 2]

\* @st.cache_data def load_data(): the cached value is returned when there is
\* one; otherwise the file is read, and the result is stored unless read_csv
\* raised
load_data(c, f) ==
    IF c.hit
    THEN [raised |-> FALSE, value |-> c.value, cache |-> c, read |-> 0]
    ELSE IF f.kind = "csv"
    THEN [raised |-> FALSE, value |-> f.rows,
          cache |-> [hit |-> TRUE, value |-> f.rows], read |-> 1]
    ELSE [raised |-> TRUE, value |-> <<>>, cache |-> c, read |-> 1]

\* st.multiselect(label, options, default=options, key=...): the stored value
\* of the key when the widget has one, the default on its first run
multiselect(options, default, stored) ==
    IF stored.set THEN stored.val ELSE default

\* a slider that takes the bounds and the default as they are given
slider_as_given(min_value, max_value, value, stored) ==
    [min |-> min_value, max |-> max_value,
     value |-> IF stored.set THEN stored.val ELSE value]

\* st.slider(label, min_value, max_value, value=(start, end), key=...): a
\* reversed default is swapped and the bounds are widened to hold the
\* default; the widget then returns the stored value of its key, or the
\* default on its first run.  (The two defaults of app.py differ from each
\* other, so the widened bounds are equal only for a table whose years are
\* all 2010, which RowPool does not build.)
slider(min_value, max_value, value, stored) ==
    LET lo0 == Min2(min_value, max_value)
        hi0 == Max2(lo0, max_value)
        start == Min2(value[1], value[2])
        end == Max2(value[1], value[2])
        lo == Min2(start, lo0)
        hi == Max2(end, hi0)
    IN  [min |-> lo, max |-> hi,
         value |-> IF stored.set THEN stored.val ELSE <<start, end>>]

---------------------------------------------------------------------------
(* The script *)

\* a mask that tests both ends of the year range against its low end
mask_low_twice(table, i, brands, types, years, prices) ==
    /\ isin(table[i].Brand, brands)
    /\ isin(table[i].BikeType, types)
    /\ ge(table[i].Year, years[1]) /\ le(table[i].Year, years[1])
    /\ ge(table[i].Price, prices[1]) /\ le(table[i].Price, prices[2])

\* the boolean mask of "Apply Filters", for the row labelled i
mask(table, i, brands, types, years, prices) ==
    /\ isin(table[i].Brand, brands)
    /\ isin(table[i].BikeType, types)
    /\ ge(table[i].Year, years[1]) /\ le(table[i].Year, years[2])
    /\ ge(table[i].Price, prices[1]) /\ le(table[i].Price, prices[2])

\* a filter that narrows the rows the previous run kept instead of df
apply_filters_in_place(table, brands, types, years, prices) ==
    LET keep(i) == mask(table, i, brands, types, years, prices)
    IN  SelectSeq(IF status = "ok" THEN filtered_df
                  ELSE [i \in 1..Len(table) |-> i], keep)

\* df[mask]: the labels of the rows the mask keeps, in the order of df
apply_filters(table, brands, types, years, prices) ==
    LET keep(i) == mask(table, i, brands, types, years, prices)
    IN  SelectSeq([i \in 1..Len(table) |-> i], keep)

\* the three st.metric values
kpi_metrics(table, labels) ==
    [total_listings |-> Len(labels),
     avg_price |-> format_mean_0f(table, labels, "Price"),
     avg_year |-> format_mean_1f(table, labels, "Year")]

\* px.histogram(filtered_df, x='Year', nbins=15): what is handed to plotly
year_histogram(table, labels) ==
    [x |-> [k \in 1..Len(labels) |-> table[labels[k]].Year], nbins |-> YearNbins]

\* filtered_df.head(100)
data_preview(labels) == head(labels, PreviewRows)

NoMetrics == [total_listings |-> NaN, avg_price |-> NaN, avg_year |-> NaN]
NoFigure == [x |-> <<>>, nbins |-> NaN]

BeforeLoad == {"page_config", "css"}
Sidebar1 == {"sidebar_title", "brand_filter", "type_filter"}
Body == {"title", "intro", "metrics", "fig1", "fig2", "fig3", "fig4", "fig5",
         "preview", "footer"}

\* a run that stopped on an uncaught exception before reaching the mask
Halted(how, ld, ss, table, brands, types, yb, yr, shown) ==
    [status |-> how, cache |-> ld.cache, read |-> ld.read, session_state |-> ss,
     df |-> table, selected_brand |-> brands, selected_type |-> types,
     year_bounds |-> yb, year_range |-> yr,
     price_bounds |-> NoRange, price_range |-> NoRange,
     filtered_df |-> <<>>, metrics |-> NoMetrics, fig2 |-> NoFigure,
     preview |-> <<>>, rendered |-> shown \cup {"exception"}]

\* one run of app.py from its first line to its last, or to the first
\* uncaught exception
RunScript(c, f, ss) ==
    LET ld == load_data(c, f)
    IN
    IF ld.raised
    THEN Halted("load_error", ld, ss, <<>>, {}, {}, NoRange, NoRange, BeforeLoad)
    ELSE
    LET table == ld.value
        brands == sorted(dropna_unique(table, "Brand"))
        sb == multiselect(brands, {brands[k] : k \in 1..Len(brands)}, ss.brand_filter)
        bike_types == sorted(dropna_unique(table, "BikeType"))
        st == multiselect(bike_types, {bike_types[k] : k \in 1..Len(bike_types)},
                          ss.type_filter)
        ss2 == [ss EXCEPT !.brand_filter = Stored(sb), !.type_filter = Stored(st)]
        miny == series_min(table, "Year")
        maxy == series_max(table, "Year")
    IN
    IF int_raises(miny) \/ int_raises(maxy)
    THEN Halted("year_bounds_error", ld, ss2, table, sb, st, NoRange, NoRange,
                BeforeLoad \cup Sidebar1)
    ELSE
    LET ys == slider(miny, maxy, <<DefaultYearLow, maxy>>, ss.year_filter)
        ss3 == [ss2 EXCEPT !.year_filter = Stored(ys.value)]
        minp == series_min(table, "Price")
        maxp == series_max(table, "Price")
    IN
    IF int_raises(minp) \/ int_raises(maxp)
    THEN Halted("price_bounds_error", ld, ss3, table, sb, st, <<ys.min, ys.max>>,
                ys.value, BeforeLoad \cup Sidebar1 \cup {"year_filter"})
    ELSE
    LET ps == slider(minp, maxp, <<DefaultPriceLow, DefaultPriceHigh>>,
                     ss.price_filter)
        ss4 == [ss3 EXCEPT !.price_filter = Stored(ps.value)]
        kept == apply_filters(table, sb, st, ys.value, ps.value)
    IN
    [status |-> "ok", cache |-> ld.cache, read |-> ld.read, session_state |-> ss4,
     df |-> table, selected_brand |-> sb, selected_type |-> st,
     year_bounds |-> <<ys.min, ys.max>>, year_range |-> ys.value,
     price_bounds |-> <<ps.min, ps.max>>, price_range |-> ps.value,
     filtered_df |-> kept, metrics |-> kpi_metrics(table, kept),
     fig2 |-> year_histogram(table, kept), preview |-> data_preview(kept),
     rendered |-> BeforeLoad \cup Sidebar1 \cup {"year_filter", "price_filter"}
                  \cup Body]

---------------------------------------------------------------------------
(* The process: events, each followed by the script run it triggers *)

\* the process has started and no session has opened the page yet
Started(files) ==
    /\ file \in files
    /\ cache = NoCache
    /\ reads = 0
    /\ session_state = NoSession
    /\ status = "idle"
    /\ df = <<>>
    /\ selected_brand = {}
    /\ selected_type = {}
    /\ year_range = NoRange
    /\ price_range = NoRange
    /\ year_bounds = NoRange
    /\ price_bounds = NoRange
    /\ filtered_df = <<>>
    /\ metrics = NoMetrics
    /\ fig2 = NoFigure
    /\ preview = <<>>
    /\ rendered = {}

Init == Started(Files)

\* the same process over the large table
InitLarge == Started({CsvFile(BigTable), Malformed})

\* the state a script run leaves behind
Show(r) ==
    /\ cache' = r.cache
    /\ reads' = reads + r.read
    /\ session_state' = r.session_state
    /\ status' = r.status
    /\ df' = r.df
    /\ selected_brand' = r.selected_brand
    /\ selected_type' = r.selected_type
    /\ year_range' = r.year_range
    /\ price_range' = r.price_range
    /\ year_bounds' = r.year_bounds
    /\ price_bounds' = r.price_bounds
    /\ filtered_df' = r.filtered_df
    /\ metrics' = r.metrics
    /\ fig2' = r.fig2
    /\ preview' = r.preview
    /\ rendered' = r.rendered
    /\ UNCHANGED file

\* a browser session opens the page: the script runs with no widget state
NewSession ==
    /\ cache.hit \/ reads < MaxReads
    /\ Show(RunScript(cache, file, NoSession))

\* the user reruns the script without touching a widget
Rerun ==
    /\ status # "idle"
    /\ cache.hit \/ reads < MaxReads
    /\ Show(RunScript(cache, file, session_state))

\* the user changes the brand multiselect
ChangeBrand ==
    /\ "brand_filter" \in rendered
    /\ \E S \in SUBSET dropna_unique(df, "Brand") :
          /\ S # selected_brand
          /\ Show(RunScript(cache, file,
                            [session_state EXCEPT !.brand_filter = Stored(S)]))

\* the user changes the bike-type multiselect
ChangeType ==
    /\ "type_filter" \in rendered
    /\ \E S \in SUBSET dropna_unique(df, "BikeType") :
          /\ S # selected_type
          /\ Show(RunScript(cache, file,
                            [session_state EXCEPT !.type_filter = Stored(S)]))

\* the positions of a slider: min_value + k * step, up to max_value
Positions(choices, bounds, step) ==
    {v \in choices : bounds[1] <= v /\ v <= bounds[2] /\ (v - bounds[1]) % step = 0}

\* the values a slider can be moved to from its present value: either thumb
\* moves to a position or stays, and the thumbs do not cross
Moves(choices, bounds, step, present) ==
    LET pos == Positions(choices, bounds, step)
    IN  {m \in (pos \cup {present[1]}) \X (pos \cup {present[2]}) :
            m[1] <= m[2] /\ m # present}

\* the user moves the year slider (step 1)
ChangeYear ==
    /\ "year_filter" \in rendered
    /\ \E m \in Moves(YearChoices, year_bounds, 1, year_range) :
          Show(RunScript(cache, file,
                         [session_state EXCEPT !.year_filter = Stored(m)]))

\* the user moves the price slider (step=10000)
ChangePrice ==
    /\ "price_filter" \in rendered
    /\ \E m \in Moves(PriceChoices, price_bounds, PriceStep, price_range) :
          Show(RunScript(cache, file,
                         [session_state EXCEPT !.price_filter = Stored(m)]))

\* the file on disk is replaced or removed while the process runs
FileChange ==
    /\ \E f \in Rewrites : f # file /\ file' = f
    /\ UNCHANGED <<cache, reads, session_state, status, df, selected_brand,
                   selected_type, year_range, price_range, year_bounds,
                   price_bounds, filtered_df, metrics, fig2, preview, rendered>>

Next ==
    \/ NewSession
    \/ Rerun
    \/ ChangeBrand
    \/ ChangeType
    \/ ChangeYear
    \/ ChangePrice
    \/ FileChange

Spec == Init /\ [][Next]_vars

SpecLarge == InitLarge /\ [][Next]_vars

---------------------------------------------------------------------------
(* Properties *)

Range(seq) == {seq[k] : k \in 1..Len(seq)}

Within(v, range) == v # NaN /\ range[1] <= v /\ v <= range[2]

\* row i of df satisfies the four predicates of the present selection
Matches(i) ==
    /\ df[i].Brand \in selected_brand
    /\ df[i].BikeType \in selected_type
    /\ Within(df[i].Year, year_range)
    /\ Within(df[i].Price, price_range)

Matching == {i \in 1..Len(df) : Matches(i)}

\* the sum of a column over the matching rows among the rows lo..hi of df
RECURSIVE SumMatching(_, _, _)
SumMatching(col, lo, hi) ==
    IF lo > hi THEN 0
    ELSE IF lo = hi THEN (IF Matches(lo) THEN df[lo][col] ELSE 0)
    ELSE LET mid == (lo + hi) \div 2
         IN  SumMatching(col, lo, mid) + SumMatching(col, mid + 1, hi)

\* shown is the mean of col over the matching rows, scaled by scale and
\* rounded to the nearest integer, or the not-available value when no row
\* matches
ShowsMean(shown, col, scale) ==
    LET n == Cardinality(Matching)
        total == scale * SumMatching(col, 1, Len(df))
    IN  IF n = 0 THEN shown = NaN
        ELSE shown # NaN /\ 2 * (n * shown - total) <= n
                         /\ 2 * (total - n * shown) <= n

Selection == <<selected_brand, selected_type, year_range, price_range>>

AllBrands == dropna_unique(df, "Brand")
AllTypes == dropna_unique(df, "BikeType")

FilterControls == {"brand_filter", "type_filter", "year_filter", "price_filter"}
Results == {"metrics", "fig1", "fig2", "fig3", "fig4", "fig5", "preview"}

\* a step that is a script run: the runs leave the file alone, and a change
\* of the file leaves everything else alone
IsRun == file' = file

\* C1: after a complete run the filtered result holds exactly the rows of the
\* base table whose brand and bike type are selected and whose year and price
\* lie in the selected ranges, both ends inclusive, each row once, and the
\* Total Listings metric is the number of such rows.
C1_ExactFilter ==
    status = "ok" =>
        /\ Range(filtered_df) = Matching
        /\ Len(filtered_df) = Cardinality(Matching)
        /\ metrics.total_listings = Cardinality(Matching)

\* C1 witness: a single-value price range [p, p] that keeps the rows priced
\* p and drops another row of the table.
C1_Witness ==
    /\ status = "ok"
    /\ price_range[1] = price_range[2]
    /\ filtered_df # <<>>
    /\ \A k \in 1..Len(filtered_df) : df[filtered_df[k]].Price = price_range[1]
    /\ \E i \in 1..Len(df) : df[i].Price # NaN /\ df[i].Price # price_range[1]

\* C2 as stated: the process calls read_csv at most once.
C2_ReadAtMostOnce == reads <= 1

\* C2 amended: every run made while nothing is memoized reads the file once;
\* once a load has succeeded the file is never read again and the memoized
\* table never changes, and the table of every later run is that table.
C2_ReadUntilLoadedThenNever ==
    [][ /\ cache.hit => reads' = reads /\ cache' = cache
        /\ (~cache.hit /\ IsRun) => reads' = reads + 1
        /\ (cache'.hit /\ ~cache.hit) => cache'.value = file.rows
        /\ cache'.hit => df' = cache'.value ]_vars

\* C2 witness: filters were changed after the file on disk was replaced by
\* other content, and the table is still the one read first.
C2_Witness ==
    /\ status = "ok"
    /\ cache.hit /\ df = cache.value
    /\ file.kind = "csv" /\ file.rows # cache.value
    /\ reads = 1
    /\ selected_brand # AllBrands

\* C3: with no brand or no bike type selected a complete run shows an empty
\* result: count 0, both means not available, and no exception.
C3_EmptySelection ==
    (status = "ok" /\ (selected_brand = {} \/ selected_type = {})) =>
        /\ filtered_df = <<>>
        /\ metrics.total_listings = 0
        /\ metrics.avg_price = NaN
        /\ metrics.avg_year = NaN
        /\ "metrics" \in rendered
        /\ "exception" \notin rendered

\* C3 witness: the brand selection was cleared on a table that has brands and
\* a row inside both ranges.
C3_Witness ==
    /\ status = "ok"
    /\ selected_brand = {}
    /\ AllBrands # {}
    /\ \E i \in 1..Len(df) :
          /\ df[i].Brand # NaS
          /\ df[i].BikeType \in selected_type
          /\ Within(df[i].Year, year_range)
          /\ Within(df[i].Price, price_range)

\* the step widens one dimension of the selection and keeps the other three
WidensOne ==
    \/ /\ selected_brand \subseteq selected_brand' /\ selected_brand' # selected_brand
       /\ selected_type' = selected_type
       /\ year_range' = year_range /\ price_range' = price_range
    \/ /\ selected_type \subseteq selected_type' /\ selected_type' # selected_type
       /\ selected_brand' = selected_brand
       /\ year_range' = year_range /\ price_range' = price_range
    \/ /\ year_range'[1] <= year_range[1] /\ year_range[2] <= year_range'[2]
       /\ year_range' # year_range
       /\ selected_brand' = selected_brand /\ selected_type' = selected_type
       /\ price_range' = price_range
    \/ /\ price_range'[1] <= price_range[1] /\ price_range[2] <= price_range'[2]
       /\ price_range' # price_range
       /\ selected_brand' = selected_brand /\ selected_type' = selected_type
       /\ year_range' = year_range

\* C4: a filter change that widens exactly one dimension and leaves the other
\* three alone keeps every row that was kept: the rows before are a subset of
\* the rows after and the count does not decrease.
C4_Monotone ==
    [][ (status = "ok" /\ status' = "ok" /\ df' = df /\ WidensOne) =>
            /\ Range(filtered_df) \subseteq Range(filtered_df')
            /\ metrics'.total_listings >= metrics.total_listings ]_vars

\* C4 witness: the year range was widened below its default low end and the
\* result holds a row of an earlier year next to rows it held before.
C4_Witness ==
    /\ status = "ok"
    /\ year_range[1] < DefaultYearLow
    /\ \E j, k \in 1..Len(filtered_df) :
          /\ df[filtered_df[j]].Year < DefaultYearLow
          /\ df[filtered_df[k]].Year >= DefaultYearLow

\* C5 as stated: a table with missing values never stops the run (domain
\* extraction completes), and no row with a missing value in one of the four
\* columns is in the filtered result.
C5_MissingNeverCrashes ==
    (cache.hit /\ Len(cache.value) > 0 /\ status # "idle") =>
        /\ status = "ok"
        /\ \A k \in 1..Len(filtered_df) :
              /\ df[filtered_df[k]].Brand # NaS
              /\ df[filtered_df[k]].BikeType # NaS
              /\ df[filtered_df[k]].Year # NaN
              /\ df[filtered_df[k]].Price # NaN

\* C6: a run in which the load fails stops there with the exception shown:
\* it emits no filter control, metric, chart or preview table, and it has
\* tried the file exactly once.
C6_LoadFailureHalts ==
    [][ (IsRun /\ status' = "load_error") =>
            /\ "exception" \in rendered'
            /\ rendered' \cap (FilterControls \cup Results) = {}
            /\ reads' = reads + 1
            /\ ~cache'.hit ]_vars

\* C6 witness: a run has failed at the load, the file being absent or
\* malformed.
C6_Witness ==
    /\ status = "load_error"
    /\ file.kind \in {"absent", "malformed"}
    /\ reads >= 1
    /\ "exception" \in rendered

\* the two mean metrics are those of the rows matching the present selection
MeansShown ==
    /\ ShowsMean(metrics.avg_price, "Price", 1)
    /\ ShowsMean(metrics.avg_year, "Year", 10)

\* C7: what a complete run shows is decided by the base table and the
\* selection of that run alone: the rows, the count and the two means are
\* those of the rows matching the present selection whatever was selected
\* before, and a run that repeats the selection of the run before it shows
\* the same rows, metrics and preview.
C7_PureFunction ==
    [][ status' = "ok" =>
            /\ Range(filtered_df') = Matching'
            /\ metrics'.total_listings = Cardinality(Matching')
            /\ MeansShown'
            /\ (status = "ok" /\ df' = df /\ Selection' = Selection) =>
                  /\ filtered_df' = filtered_df
                  /\ metrics' = metrics
                  /\ preview' = preview ]_vars

\* C7 witness: after changes of three of the filters away from their
\* defaults the run shows rows and leaves others out.
C7_Witness ==
    /\ status = "ok"
    /\ selected_brand # AllBrands
    /\ year_range[1] # DefaultYearLow
    /\ price_range[1] # DefaultPriceLow
    /\ filtered_df # <<>>
    /\ Len(filtered_df) < Len(df)

\* the true minimum and maximum of the non-missing values of the columns
DataYears == <<series_min(df, "Year"), series_max(df, "Year")>>
DataPrices == <<series_min(df, "Price"), series_max(df, "Price")>>

\* C8 as stated: both ranges satisfy low <= high and lie within the bounds
\* derived from the data, from the defaults on.
C8_RangesWithinDataBounds ==
    status = "ok" =>
        /\ year_range[1] <= year_range[2]
        /\ DataYears[1] <= year_range[1] /\ year_range[2] <= DataYears[2]
        /\ price_range[1] <= price_range[2]
        /\ DataPrices[1] <= price_range[1] /\ price_range[2] <= DataPrices[2]

\* C8 amended: both ranges satisfy low <= high and lie within the bounds of
\* their sliders, which are the bounds derived from the data widened to hold
\* the defaults 2010 and 50000 .. 2000000.
C8_RangesWithinSliderBounds ==
    /\ "year_filter" \in rendered =>
          /\ year_range[1] <= year_range[2]
          /\ year_bounds[1] <= year_range[1] /\ year_range[2] <= year_bounds[2]
          /\ year_bounds = <<Min2(DataYears[1], DefaultYearLow),
                             Max2(DataYears[2], DefaultYearLow)>>
    /\ "price_filter" \in rendered =>
          /\ price_range[1] <= price_range[2]
          /\ price_bounds[1] <= price_range[1]
          /\ price_range[2] <= price_bounds[2]
          /\ price_bounds = <<Min2(DataPrices[1], DefaultPriceLow),
                              Max2(DataPrices[2], DefaultPriceHigh)>>

\* C8 witness: the table has no year as early as 2010 and no price as high as
\* 2000000, the price slider was moved, and the year range still starts at
\* 2010, below every year of the data.
C8_Witness ==
    /\ status = "ok"
    /\ DataYears[1] > DefaultYearLow
    /\ DataPrices[2] < DefaultPriceHigh
    /\ year_range[1] = DefaultYearLow
    /\ price_range # <<DefaultPriceLow, DefaultPriceHigh>>

\* C10: the filtered result lists the rows in the order of the base table,
\* and the preview is its first min(100, count) rows in that order.
C10_StablePreview ==
    status = "ok" =>
        /\ \A k \in 1..(Len(filtered_df) - 1) : filtered_df[k] < filtered_df[k + 1]
        /\ Len(preview) = Min2(PreviewRows, Len(filtered_df))
        /\ \A k \in 1..Len(preview) : preview[k] = filtered_df[k]

\* C10 witness: more than 100 rows match after a filter change, and the
\* preview stops at the 100th of them.
C10_Witness ==
    /\ status = "ok"
    /\ Len(filtered_df) > PreviewRows
    /\ Len(preview) = PreviewRows
    /\ preview[PreviewRows] = filtered_df[PreviewRows]
    /\ year_range[1] # DefaultYearLow

====
